---- MODULE Spec2Model ----
(***************************************************************************)
(* The riotbot tutorial service (services/riotbot/riotbot.go): the         *)
(* process-wide registry `tutorials`, the `start` command                  *)
(* (initTutorialFlow) and the timer-driven chain queueNextStep/nextStep.   *)
(*                                                                         *)
(* Go copy semantics are kept: `tutorials` holds Tutorial VALUES, the      *)
(* registry lookup `tutorial := tutorials[t]` copies the entry, nextStep   *)
(* has a value receiver and so works on a copy of its caller's Tutorial.   *)
(* A run (one chain of queueNextStep/nextStep calls) therefore carries its *)
(* own Tutorial value; the run of call i is chain[i].                      *)
(***************************************************************************)
EXTENDS Integers, Sequences, FiniteSets, TLC

\* ---------------------------------------------------------------- bounds
\* Longest flow (len(tutorialFlow.Tutorial.Steps)) that is explored.
MaxSteps == 2
\* Number of `start` commands issued in one behaviour.
MaxStarts == 2

Calls == 1..MaxStarts

\* User and room identifiers.  The code only compares user identifiers for
\* equality, and it stores a room identifier in the session and passes it to
\* the send without ever comparing it.  So identifiers are named by rank:
\* the first user that calls is @u1, and the first room a user calls from is
\* !A (a later call of that user comes from !A again or from !B).
Users == {"@u1", "@u2"}
Rooms == {"!A", "!B"}

VARIABLES
    tutorialFlow,   \* the flow loaded by init(), immutable afterwards
    tutorials,      \* the registry: a slice of Tutorial values
    call,           \* call[i]: the i-th invocation of initTutorialFlow
    chain,          \* chain[i]: the queueNextStep/nextStep chain of call i
    crashed         \* an unrecovered panic has terminated the process

vars == <<tutorialFlow, tutorials, call, chain, crashed>>

\* ------------------------------------------------------- flow definition
\* A step body is a template text, kept as its sequence of lexical items:
\* literal text, a field action {{.Name}}, a chained field action
\* {{.Name.X}} and an action that is never closed ("{{").
Lit(s) == [k |-> "lit", v |-> s]
Field(n) == [k |-> "field", v |-> n]
SubField(n) == [k |-> "subfield", v |-> n]
Unclosed == [k |-> "unclosed", v |-> "{{"]

\* The TutorialStep values flows are built from: every message type of the
\* switch in nextStep, an unrecognised type and the empty type; an empty
\* body, a plain body, a body with a placeholder, a body whose execution
\* fails and a body that does not parse; delays of 0 and of 1 ms.
StepSet ==
    { [Type |-> "text",   Body |-> <<Lit("hi "), Field("Name")>>, Src |-> "",       Delay |-> 0],
      [Type |-> "notice", Body |-> <<Lit("bye")>>,                Src |-> "",       Delay |-> 0],
      [Type |-> "image",  Body |-> <<>>,                          Src |-> "/a.png", Delay |-> 1],
      [Type |-> "video",  Body |-> <<Lit("x"), SubField("Name")>>, Src |-> "",      Delay |-> 1],
      [Type |-> "",       Body |-> <<Unclosed>>,                  Src |-> "",       Delay |-> 0] }

StepSeqs == UNION { [1..n -> StepSet] : n \in 0..MaxSteps }

\* TutorialFlow values (the yaml document after yaml.Unmarshal).
Flows ==
    { [ResourcesBaseURL |-> "http://x/",
       Templates        |-> [Name |-> "Ann"],
       InitialDelay     |-> d,
       Steps            |-> s] : d \in {0, 1}, s \in StepSeqs }

NSteps == Len(tutorialFlow.Steps)

\* ------------------------------------------------------------- Tutorial
\* Timer handles are kept by the state of the timer they point to:
\* "nil" (no timer), "pending", "fired", "stopped".
NewTutorial(roomID, userID, templates) ==
    [roomID |-> roomID, userID |-> userID, currentStep |-> -1,
     timer |-> "nil", templates |-> templates]

\* time.Timer.Stop: prevents a pending timer from firing; no effect on a
\* timer that has fired or was stopped.
Stop(timer) == IF timer = "pending" THEN "stopped" ELSE timer

\* A queueNextStep that never waits: the next step runs at once whatever
\* the delay.
queueNextStep_noWait(t, delay) ==
    LET t1 == IF t.timer # "nil" THEN [t EXCEPT !.timer = Stop(@)] ELSE t
    IN  [pc |-> "next", t |-> t1]

\* queueNextStep up to the point where it blocks on the timer channel
\* (pc "wait") or calls nextStep at once (pc "next").
queueNextStep(t, delay) ==
    LET t1 == IF t.timer # "nil" THEN [t EXCEPT !.timer = Stop(@)] ELSE t
    IN  IF delay > 0
        THEN [pc |-> "wait", t |-> [t1 EXCEPT !.timer = "pending"]]
        ELSE [pc |-> "next", t |-> t1]

\* restart: stop the timer of the receiver, reset its step, queue step 0.
restart(t) ==
    LET t1 == IF t.timer # "nil" THEN [t EXCEPT !.timer = Stop(@)] ELSE t
        t2 == [t1 EXCEPT !.currentStep = -1]
    IN  queueNextStep(t2, tutorialFlow.InitialDelay)

\* --------------------------------------------------------- renderBody
RECURSIVE Execute(_, _, _)
\* text/template Parse: an unclosed action is a parse error, and Parse then
\* returns a nil template.
Parse(body) ==
    IF \E k \in 1..Len(body) : body[k].k = "unclosed"
    THEN [tmpl |-> "nil", err |-> TRUE]
    ELSE [tmpl |-> body, err |-> FALSE]

\* text/template Execute on a parsed template: literals are copied, a field
\* of the map prints its value ("<no value>" when the key is missing), a
\* field of a string value is an execution error.
Execute(tmpl, data, out) ==
    IF tmpl = <<>> THEN [err |-> FALSE, out |-> out]
    ELSE LET it == Head(tmpl) IN
         CASE it.k = "lit"      -> Execute(Tail(tmpl), data, out \o it.v)
           [] it.k = "field"    ->
                Execute(Tail(tmpl), data,
                        out \o (IF it.v \in DOMAIN data THEN data[it.v] ELSE "<no value>"))
           [] it.k = "subfield" -> [err |-> TRUE, out |-> out]

\* renderBody: the rendered body, or a panic: Execute called on the nil
\* template of a failed Parse dereferences nil, a runtime error that
\* text/template does not recover.
renderBody(t, ts) ==
    IF ts.Body # <<>>
    THEN LET p == Parse(ts.Body) IN
         IF p.tmpl = "nil" THEN [panic |-> TRUE, body |-> ""]
         ELSE LET e == Execute(p.tmpl, t.templates, "") IN
              IF e.err THEN [panic |-> FALSE, body |-> ""]
              ELSE [panic |-> FALSE, body |-> e.out]
    ELSE [panic |-> FALSE, body |-> ""]

\* ------------------------------------------------------------ nextStep
\* A switch whose notice and default cases are exchanged.
Message_swapped(step, body, base) ==
    CASE step.Type = "image"  ->
            [struct |-> "ImageMessage", MsgType |-> "m.image", Body |-> body,
             URL |-> base \o step.Src]
      [] step.Type = "notice" ->
            [struct |-> "TextMessage", MsgType |-> "m.text", Body |-> body, URL |-> ""]
      [] OTHER ->
            [struct |-> "TextMessage", MsgType |-> "m.notice", Body |-> body, URL |-> ""]

\* The message nextStep builds for a step (the switch on step.Type).
Message(step, body, base) ==
    CASE step.Type = "image"  ->
            [struct |-> "ImageMessage", MsgType |-> "m.image", Body |-> body,
             URL |-> base \o step.Src]
      [] step.Type = "notice" ->
            [struct |-> "TextMessage", MsgType |-> "m.notice", Body |-> body, URL |-> ""]
      [] OTHER ->
            [struct |-> "TextMessage", MsgType |-> "m.text", Body |-> body, URL |-> ""]

\* A send whose error ends the run instead of being logged.
AfterSend_abortOnError(t, step, ok) ==
    IF ok THEN queueNextStep(t, step.Delay) ELSE [pc |-> "done", t |-> t]

\* What nextStep does after SendMessageEvent returned (ok: no error): the
\* result is only logged, then the next step is queued.
AfterSend(t, step, ok) == queueNextStep(t, step.Delay)

\* t.currentStep++ on nextStep's copy of the receiver.
Advance(t) == [t EXCEPT !.currentStep = @ + 1]

\* An end of tutorial that rewinds the instance.
Finish_rewind(c, t) == [c EXCEPT !.pc = "done", !.t = [t EXCEPT !.currentStep = -1]]

\* The else branch of nextStep: the tutorial instance ended, nothing is
\* queued and nothing is removed.
Finish(c, t) == [c EXCEPT !.pc = "done", !.t = t]

\* One call of nextStep on the copy t (currentStep already incremented),
\* with the outcome ok of its send: the new chain record.  sent lists the
\* messages handed to SendMessageEvent, err is the e != nil of the latest.
NextStepResult(c, t, ok) ==
    IF t.currentStep < Len(tutorialFlow.Steps)
    THEN LET step == tutorialFlow.Steps[t.currentStep + 1]
             r == renderBody(t, step)
         IN  IF r.panic
             THEN [c EXCEPT !.pc = "panicked", !.t = t]
             ELSE LET q == AfterSend(t, step, ok) IN
                  [c EXCEPT !.pc = q.pc, !.t = q.t, !.err = ~ok,
                            !.sent = Append(@, [roomID |-> t.roomID,
                                                event |-> "m.room.message",
                                                msg |-> Message(step, r.body, tutorialFlow.ResourcesBaseURL),
                                                step |-> t.currentStep])]
    ELSE Finish(c, t)

\* ---------------------------------------------------------------- Init
NoCall == [pc |-> "none", roomID |-> "", userID |-> "", snap |-> <<>>, ret |-> ""]
NoChain == [pc |-> "none", sync |-> FALSE, t |-> NewTutorial("", "", <<>>),
            sent |-> <<>>, err |-> FALSE]

Init ==
    /\ tutorialFlow \in Flows
    /\ tutorials = <<>>
    /\ call = [i \in Calls |-> NoCall]
    /\ chain = [i \in Calls |-> NoChain]
    /\ crashed = FALSE

\* ------------------------------------------------------ initTutorialFlow
\* `tutorials` is read and written with no lock.  The handler's accesses are
\* kept as separate steps (the scan, the read made by append, the store of
\* the extended slice) so that concurrent calls interleave between them.
\* A scan that never matches.
FindTutorial_none(tuts, userID) == 0

\* Index of the first registry entry of the user, 0 when there is none.
FindTutorial(tuts, userID) ==
    IF \E k \in 1..Len(tuts) : tuts[k].userID = userID
    THEN CHOOSE k \in 1..Len(tuts) :
            /\ tuts[k].userID = userID
            /\ \A j \in 1..(k - 1) : tuts[j].userID # userID
    ELSE 0

\* Identifiers are named by rank of first use.
UsedUsers == { call[i].userID : i \in { j \in Calls : call[j].pc # "none" } }
NextUsers == IF UsedUsers = {} THEN {"@u1"} ELSE Users
NextRooms(u) == IF u \in UsedUsers THEN Rooms ELSE {"!A"}

\* A restart branch that moves the session to the room of the command.
Start_callerRoom(i, roomID, userID) ==
    /\ ~crashed
    /\ call[i].pc = "none"
    /\ \A j \in 1..(i - 1) : call[j].pc # "none"
    /\ LET k == FindTutorial(tutorials, userID) IN
       IF k # 0
       THEN LET tutorial == [tutorials[k] EXCEPT !.roomID = roomID]
                q == restart(tutorial)
            IN  /\ call' = [call EXCEPT ![i] = [NoCall EXCEPT !.pc = "restarting",
                                                             !.roomID = roomID,
                                                             !.userID = userID]]
                /\ chain' = [chain EXCEPT ![i] = [NoChain EXCEPT !.pc = q.pc,
                                                                 !.sync = TRUE,
                                                                 !.t = q.t]]
       ELSE /\ call' = [call EXCEPT ![i] = [NoCall EXCEPT !.pc = "append",
                                                         !.roomID = roomID,
                                                         !.userID = userID]]
            /\ chain' = chain
    /\ UNCHANGED <<tutorialFlow, tutorials, crashed>>

\* The command handler is entered and scans the registry.  A match: the
\* entry is copied and restart runs on the copy, in the caller's thread.
\* No match: the handler goes on to create a session.
Start(i, roomID, userID) ==
    /\ ~crashed
    /\ call[i].pc = "none"
    /\ \A j \in 1..(i - 1) : call[j].pc # "none"
    /\ LET k == FindTutorial(tutorials, userID) IN
       IF k # 0
       THEN LET tutorial == tutorials[k]
                q == restart(tutorial)
            IN  /\ call' = [call EXCEPT ![i] = [NoCall EXCEPT !.pc = "restarting",
                                                             !.roomID = roomID,
                                                             !.userID = userID]]
                /\ chain' = [chain EXCEPT ![i] = [NoChain EXCEPT !.pc = q.pc,
                                                                 !.sync = TRUE,
                                                                 !.t = q.t]]
       ELSE /\ call' = [call EXCEPT ![i] = [NoCall EXCEPT !.pc = "append",
                                                         !.roomID = roomID,
                                                         !.userID = userID]]
            /\ chain' = chain
    /\ UNCHANGED <<tutorialFlow, tutorials, crashed>>

\* append(tutorials, tutorial) reads the slice ...
AppendRead(i) ==
    /\ ~crashed
    /\ call[i].pc = "append"
    /\ call' = [call EXCEPT ![i].pc = "append_write", ![i].snap = tutorials]
    /\ UNCHANGED <<tutorialFlow, tutorials, chain, crashed>>

\* An append that stores the value the new goroutine works on, after the
\* goroutine has queued its first step on it.
AppendWrite_aliased(i) ==
    /\ ~crashed
    /\ call[i].pc = "append_write"
    /\ LET tutorial == NewTutorial(call[i].roomID, call[i].userID, tutorialFlow.Templates)
           q == queueNextStep(tutorial, tutorialFlow.InitialDelay)
       IN  /\ tutorials' = Append(call[i].snap, q.t)
           /\ chain' = [chain EXCEPT ![i] = [NoChain EXCEPT !.pc = q.pc, !.t = q.t]]
    /\ call' = [call EXCEPT ![i].pc = "returned", ![i].snap = <<>>,
                            ![i].ret = "Starting Riot tutorial"]
    /\ UNCHANGED <<tutorialFlow, crashed>>

\* ... and the assignment stores the extended slice; then the go statement
\* starts queueNextStep(InitialDelay) on the handler's local value in a new
\* goroutine, and the handler, which the go statement does not block,
\* returns its confirmation.
AppendWrite(i) ==
    /\ ~crashed
    /\ call[i].pc = "append_write"
    /\ LET tutorial == NewTutorial(call[i].roomID, call[i].userID, tutorialFlow.Templates)
           q == queueNextStep(tutorial, tutorialFlow.InitialDelay)
       IN  /\ tutorials' = Append(call[i].snap, tutorial)
           /\ chain' = [chain EXCEPT ![i] = [NoChain EXCEPT !.pc = q.pc, !.t = q.t]]
    /\ call' = [call EXCEPT ![i].pc = "returned", ![i].snap = <<>>,
                            ![i].ret = "Starting Riot tutorial"]
    /\ UNCHANGED <<tutorialFlow, crashed>>

\* The restart branch returns its confirmation when tutorial.restart(),
\* which it called in its own thread, has returned.
Return(i) ==
    /\ ~crashed
    /\ call[i].pc = "restarting"
    /\ chain[i].pc = "done"
    /\ call' = [call EXCEPT ![i].pc = "returned", ![i].ret = "Restarting Riot tutorial"]
    /\ UNCHANGED <<tutorialFlow, tutorials, chain, crashed>>

\* ------------------------------------------------------------ the chain
\* nextStep runs on a copy t of the chain's Tutorial: it increments the step,
\* sends the step's message (the send succeeds or fails) and queues the
\* next; a panic in it is not recovered and ends the process.
RunNextStep(i, t) ==
    /\ \E ok \in BOOLEAN :
         LET c == NextStepResult(chain[i], Advance(t), ok)
         IN  /\ chain' = [chain EXCEPT ![i] = c]
             /\ crashed' = (c.pc = "panicked")
    /\ UNCHANGED <<tutorialFlow, tutorials, call>>

\* delay > 0: the timer the chain waits on fires, the receive <-t.timer.C
\* returns and queueNextStep calls nextStep.
TimerFire(i) ==
    /\ ~crashed
    /\ chain[i].pc = "wait"
    /\ chain[i].t.timer = "pending"
    /\ RunNextStep(i, [chain[i].t EXCEPT !.timer = "fired"])

\* delay <= 0: queueNextStep calls nextStep at once.
NextStep(i) ==
    /\ ~crashed
    /\ chain[i].pc = "next"
    /\ RunNextStep(i, chain[i].t)

Next ==
    \/ \E i \in Calls, u \in NextUsers : \E r \in NextRooms(u) : Start(i, r, u)
    \/ \E i \in Calls : AppendRead(i)
    \/ \E i \in Calls : AppendWrite(i)
    \/ \E i \in Calls : Return(i)
    \/ \E i \in Calls : TimerFire(i)
    \/ \E i \in Calls : NextStep(i)

Spec == Init /\ [][Next]_vars

\* Sequential use: a start command is issued only after every earlier one
\* has returned.
SeqStart(i, roomID, userID) ==
    /\ \A j \in 1..(i - 1) : call[j].pc = "returned"
    /\ Start(i, roomID, userID)

SeqNext ==
    \/ \E i \in Calls, u \in NextUsers : \E r \in NextRooms(u) : SeqStart(i, r, u)
    \/ \E i \in Calls : AppendRead(i)
    \/ \E i \in Calls : AppendWrite(i)
    \/ \E i \in Calls : Return(i)
    \/ \E i \in Calls : TimerFire(i)
    \/ \E i \in Calls : NextStep(i)

SeqSpec == Init /\ [][SeqNext]_vars

\* Scheduling: a goroutine that can take its next step eventually takes it
\* (the handler of a command between its accesses to the registry and at its
\* return, a chain about to call nextStep), and a timer a chain waits on
\* fires when its duration has elapsed.  Nothing obliges a user to issue a
\* start command.
Fairness ==
    \A i \in Calls :
        /\ WF_vars(AppendRead(i))
        /\ WF_vars(AppendWrite(i))
        /\ WF_vars(Return(i))
        /\ WF_vars(TimerFire(i))
        /\ WF_vars(NextStep(i))

FairSpec == Init /\ [][Next]_vars /\ Fairness

\* ------------------------------------------------------------ vocabulary
\* Call i has been issued / call j is a restart of the session of user u.
Issued(i) == call[i].pc # "none"
Started(i) == chain[i].pc # "none"
IsRestart(j) == Started(j) /\ chain[j].sync
Running(i) == chain[i].pc \in {"wait", "next"}
\* The step indexes a chain has sent, in order.
SentSteps(i) == [k \in 1..Len(chain[i].sent) |-> chain[i].sent[k].step]
FullRun == [k \in 1..NSteps |-> k - 1]
\* Chain i sends a message in this step.
Sends(i) == Len(chain'[i].sent) = Len(chain[i].sent) + 1

\* ------------------------------------------------------------------- C1
\* C1: after a start that restarts a user's session, exactly one fresh
\* sequence of sends from step 0 follows, and no step of an earlier run of
\* that user is sent after the restart.
C1_RestartReplacesRun ==
    /\ [](\A j \in Calls : IsRestart(j) /\ chain[j].pc = "done" => SentSteps(j) = FullRun)
    /\ [][\A i \in Calls : Sends(i) =>
            ~\E j \in Calls : /\ j > i
                              /\ IsRestart(j)
                              /\ chain[j].t.userID = chain[i].t.userID]_vars

\* ------------------------------------------------------------------- C3
\* C3: a start call never has its own thread blocked on a timer: in both
\* branches the handler returns before any delay has to elapse.
C3_StartNeverWaitsOnDelay ==
    \A i \in Calls :
        call[i].pc \notin {"none", "returned"} => ~(chain[i].sync /\ chain[i].pc = "wait")

\* ------------------------------------------------------------------- C4
\* C4: a template failure never aborts the session or the process: no chain
\* ends in a panic.
C4_TemplateFailureNeverAborts ==
    /\ ~crashed
    /\ \A i \in Calls : chain[i].pc # "panicked"

\* ------------------------------------------------------------------- C2
\* C2: whatever the flow, the run of a session created by start (and not by
\* a restart) stops only in Completed, after exactly one send per step
\* index 0..N-1, and then holds no pending timer.
C2_RunSendsEveryStepOnce ==
    \A i \in Calls :
        (Started(i) /\ ~chain[i].sync /\ ~Running(i)) =>
            /\ chain[i].pc = "done"
            /\ SentSteps(i) = FullRun
            /\ chain[i].t.timer # "pending"

\* ------------------------------------------------------------------- C8
\* C8: every session (user) has at most one pending timer at any time.
PendingTimers(u) ==
    { i \in Calls : Started(i) /\ chain[i].t.userID = u /\ chain[i].t.timer = "pending" }

C8_OnePendingTimerPerSession ==
    \A u \in Users : Cardinality(PendingTimers(u)) <= 1

\* ------------------------------------------------------------------- C9
\* C9: under concurrent start calls the registry never holds two sessions
\* of one user, and every append that was made is in the registry.
Appended == { i \in Calls : Started(i) /\ ~chain[i].sync }

C9_RegistryScanAppendExclusive ==
    /\ \A a, b \in 1..Len(tutorials) :
          a # b => tutorials[a].userID # tutorials[b].userID
    /\ Len(tutorials) = Cardinality(Appended)

\* ------------------------------------------------------------------- C5
\* C5: a failed send does not abort the run: after every send, failed or
\* not, the chain waits on a fresh timer (step delay > 0) or goes straight
\* to the next step (delay 0); so a run that reaches the end has attempted
\* every step 0..N-1 whatever sends failed.
LastSent(i) == chain'[i].sent[Len(chain'[i].sent)]

C5_SendFailureKeepsSchedule ==
    /\ [](\A i \in Calls : chain[i].pc = "done" => SentSteps(i) = FullRun)
    /\ [][\A i \in Calls : Sends(i) =>
            LET step == tutorialFlow.Steps[LastSent(i).step + 1] IN
            /\ chain'[i].t.currentStep = LastSent(i).step
            /\ step.Delay > 0  => chain'[i].pc = "wait" /\ chain'[i].t.timer = "pending"
            /\ step.Delay <= 0 => chain'[i].pc = "next"]_vars

\* A run of at least two steps has completed although its last send failed.
C5_Witness ==
    \E i \in Calls :
        /\ chain[i].pc = "done"
        /\ Len(chain[i].sent) >= 2
        /\ chain[i].err

\* ------------------------------------------------------------------- C7
\* C7: every message sent has the kind and payload of its step's type: an
\* image message with URL = base URL followed by src and the rendered body
\* as caption for "image", a notice for "notice", a plain text message for
\* every other type; each goes to the run's room as an m.room.message.
ExpectedBody(body) ==
    CASE body = <<Lit("hi "), Field("Name")>> -> "hi Ann"
      [] body = <<Lit("bye")>>                -> "bye"
      [] OTHER                                -> ""

ExpectedURL(src) == IF src = "/a.png" THEN "http://x//a.png" ELSE "?"

C7_MessageMatchesStepType ==
    \A i \in Calls : \A k \in 1..Len(chain[i].sent) :
        LET e == chain[i].sent[k]
            step == tutorialFlow.Steps[e.step + 1]
        IN  /\ e.roomID = chain[i].t.roomID
            /\ e.event = "m.room.message"
            /\ e.msg.Body = ExpectedBody(step.Body)
            /\ step.Type = "image" =>
                  /\ e.msg.struct = "ImageMessage"
                  /\ e.msg.MsgType = "m.image"
                  /\ e.msg.URL = ExpectedURL(step.Src)
            /\ step.Type = "notice" =>
                  /\ e.msg.struct = "TextMessage"
                  /\ e.msg.MsgType = "m.notice"
            /\ step.Type \notin {"image", "notice"} =>
                  /\ e.msg.struct = "TextMessage"
                  /\ e.msg.MsgType = "m.text"

\* One run has sent an image step and a step of an unrecognised type.
C7_Witness ==
    \E i \in Calls : \E a, b \in 1..Len(chain[i].sent) :
        /\ tutorialFlow.Steps[chain[i].sent[a].step + 1].Type = "image"
        /\ tutorialFlow.Steps[chain[i].sent[b].step + 1].Type = "video"

\* ------------------------------------------------------------------ C10
\* C10: in every run currentStep changes only by +1 and never exceeds N,
\* and a run begins at -1: the value -1 is set by NewTutorial and restart
\* and by nothing else.
C10_StepOnlyAdvances ==
    [][\A i \in Calls :
         /\ chain'[i].t.currentStep # chain[i].t.currentStep =>
               /\ chain'[i].t.currentStep = chain[i].t.currentStep + 1
               /\ chain'[i].t.currentStep <= NSteps
               /\ Running(i)
         /\ (~Started(i) /\ chain'[i].pc # "none") => chain'[i].t.currentStep = -1]_vars

\* A restarted run has advanced to the end of a flow of two or more steps.
C10_Witness ==
    \E j \in Calls :
        /\ IsRestart(j)
        /\ NSteps >= 2
        /\ chain[j].t.currentStep = NSteps

\* ------------------------------------------------------------------- C6
\* C6: with start calls issued one after the other, a start for a user who
\* is in the registry leaves the registry as it is and answers "Restarting
\* Riot tutorial"; a start for a new user appends exactly one session and
\* answers "Starting Riot tutorial"; the registry holds one session per
\* user that has called start.
InRegistry(u) == \E k \in 1..Len(tutorials) : tutorials[k].userID = u
Enters(i) == call[i].pc = "none" /\ call'[i].pc # "none"

C6_StartIsFindOrCreate ==
    /\ [](/\ \A a, b \in 1..Len(tutorials) :
                a # b => tutorials[a].userID # tutorials[b].userID
          /\ \A i \in Calls : call[i].pc = "returned" =>
                call[i].ret = IF \E j \in 1..(i - 1) : call[j].userID = call[i].userID
                              THEN "Restarting Riot tutorial"
                              ELSE "Starting Riot tutorial"
          /\ \A i \in Calls : call[i].pc \in {"restarting", "returned"} =>
                InRegistry(call[i].userID)
          /\ \A k \in 1..Len(tutorials) :
                \E i \in Calls : Issued(i) /\ call[i].userID = tutorials[k].userID)
    /\ [][/\ \A i \in Calls : Enters(i) =>
                /\ tutorials' = tutorials
                /\ call'[i].pc = IF InRegistry(call'[i].userID) THEN "restarting" ELSE "append"
          /\ tutorials' # tutorials =>
                /\ Len(tutorials') = Len(tutorials) + 1
                /\ SubSeq(tutorials', 1, Len(tutorials)) = tutorials
                /\ ~InRegistry(tutorials'[Len(tutorials')].userID)]_vars

\* Two calls for one user have returned, the first with "Starting", the
\* second with "Restarting", and the registry holds one session.
C6_Witness ==
    /\ Len(tutorials) = 1
    /\ \E i, j \in Calls :
          /\ i < j
          /\ call[i].pc = "returned" /\ call[i].ret = "Starting Riot tutorial"
          /\ call[j].pc = "returned" /\ call[j].ret = "Restarting Riot tutorial"
          /\ call[i].userID = call[j].userID

\* ------------------------------------------------------------------ C11
\* C11: within one run the sends follow the flow order: the k-th send of a
\* run is step k-1; step 0 is sent when the initial delay has elapsed and
\* step i+1 when the delay of step i has (the run waited on a pending timer
\* when that delay is > 0, and went on at once when it is 0); a timer is
\* pending only while the run waits on it, so the delay after step i begins
\* after the message of step i was sent; a completed run holds no pending
\* timer.  With initialDelay 0 and steps [text "hi {{.Name}}", delay 0],
\* [notice "bye", delay 0] a completed run has sent text "hi Ann" and then
\* notice "bye".
PrevDelay(k) ==
    IF k = 0 THEN tutorialFlow.InitialDelay ELSE tutorialFlow.Steps[k].Delay

ScenarioSteps ==
    << [Type |-> "text",   Body |-> <<Lit("hi "), Field("Name")>>, Src |-> "", Delay |-> 0],
       [Type |-> "notice", Body |-> <<Lit("bye")>>,                Src |-> "", Delay |-> 0] >>

IsScenario == tutorialFlow.InitialDelay = 0 /\ tutorialFlow.Steps = ScenarioSteps

ScenarioSent(i) ==
    /\ Len(chain[i].sent) = 2
    /\ chain[i].sent[1].msg =
          [struct |-> "TextMessage", MsgType |-> "m.text", Body |-> "hi Ann", URL |-> ""]
    /\ chain[i].sent[2].msg =
          [struct |-> "TextMessage", MsgType |-> "m.notice", Body |-> "bye", URL |-> ""]

C11_SendsFollowFlowOrder ==
    /\ [](\A i \in Calls :
            /\ \A k \in 1..Len(chain[i].sent) : chain[i].sent[k].step = k - 1
            /\ chain[i].t.timer = "pending" => chain[i].pc = "wait"
            /\ chain[i].pc = "done" => chain[i].t.timer # "pending"
            /\ (IsScenario /\ chain[i].pc = "done") => ScenarioSent(i))
    /\ [][\A i \in Calls : Sends(i) =>
            LET k == LastSent(i).step IN
            /\ k = Len(chain[i].sent)
            /\ chain[i].t.currentStep = k - 1
            /\ PrevDelay(k) > 0  => chain[i].pc = "wait" /\ chain[i].t.timer = "pending"
            /\ PrevDelay(k) <= 0 => chain[i].pc = "next"]_vars

\* The scenario flow: a run has sent the text, then the notice, and has
\* completed with no pending timer.
C11_Witness ==
    \E i \in Calls :
        /\ IsScenario
        /\ chain[i].pc = "done"
        /\ ScenarioSent(i)
        /\ chain[i].t.timer # "pending"

\* ------------------------------------------------------------------ C12
\* C12: the session of a start is looked up by user identifier only, first
\* match first: a start for a user who has a registry entry leaves the
\* registry as it is and restarts that entry, whatever room the command
\* came from; the restarted run keeps the room of the entry (the room of
\* the user's first start) and sends every message there.
FirstCall(u) ==
    CHOOSE i \in Calls :
        /\ Issued(i) /\ call[i].userID = u
        /\ \A m \in 1..(i - 1) : call[m].userID # u

C12_LookupByUserOnly ==
    /\ [](\A j \in Calls : IsRestart(j) =>
            /\ chain[j].t.userID = call[j].userID
            /\ chain[j].t.roomID = call[FirstCall(call[j].userID)].roomID
            /\ \A k \in 1..Len(chain[j].sent) :
                  chain[j].sent[k].roomID = call[FirstCall(call[j].userID)].roomID)
    /\ [][\A j \in Calls : (Enters(j) /\ InRegistry(call'[j].userID)) =>
            /\ tutorials' = tutorials
            /\ chain'[j].sync
            /\ \E k \in 1..Len(tutorials) :
                  /\ tutorials[k].userID = call'[j].userID
                  /\ \A m \in 1..(k - 1) : tutorials[m].userID # call'[j].userID
                  /\ chain'[j].t.roomID = tutorials[k].roomID]_vars

\* A start from room !B has restarted the session its user created in room
\* !A: the restarted run has completed, every message of it went to !A, and
\* the registry still holds one session.
C12_Witness ==
    \E j \in Calls :
        /\ IsRestart(j)
        /\ call[j].roomID = "!B"
        /\ call[FirstCall(call[j].userID)].roomID = "!A"
        /\ chain[j].pc = "done"
        /\ Len(chain[j].sent) >= 1
        /\ \A k \in 1..Len(chain[j].sent) : chain[j].sent[k].roomID = "!A"
        /\ Len(tutorials) = 1

\* ------------------------------------------------------------------ C13
\* C13: the registry only grows: every change of it appends one entry and
\* leaves the entries it held where they were, so its length never
\* decreases and no entry is removed or reordered, whatever runs have
\* completed.
C13_RegistryOnlyGrows ==
    [][tutorials' # tutorials =>
          /\ Len(tutorials') = Len(tutorials) + 1
          /\ SubSeq(tutorials', 1, Len(tutorials)) = tutorials]_vars

\* ------------------------------------------------------------------ C15
\* C15: a registry entry is never modified: in every reachable state each
\* entry is the value NewTutorial made (currentStep -1, no timer, the
\* flow's templates), whatever starts, advances and restarts have happened;
\* and every run begins from such a value.
C15_RegistryEntryNeverModified ==
    /\ [](\A k \in 1..Len(tutorials) :
            /\ tutorials[k].currentStep = -1
            /\ tutorials[k].timer = "nil"
            /\ tutorials[k] = NewTutorial(tutorials[k].roomID, tutorials[k].userID,
                                          tutorialFlow.Templates))
    /\ [][\A k \in 1..Len(tutorials) :
            (k <= Len(tutorials') /\ tutorials'[k].userID = tutorials[k].userID
                                  /\ tutorials'[k].roomID = tutorials[k].roomID)
                => tutorials'[k] = tutorials[k]]_vars

\* The run a session was created with and a restarted run of it have both
\* advanced past step 0 on timers of their own, and the session's registry
\* entry is still at step -1 with no timer.
C15_Witness ==
    \E i, j \in Calls : \E k \in 1..Len(tutorials) :
        /\ i # j
        /\ ~chain[i].sync /\ IsRestart(j)
        /\ tutorials[k].userID = chain[i].t.userID
        /\ tutorials[k].userID = chain[j].t.userID
        /\ chain[i].t.currentStep >= 1 /\ chain[i].t.timer # "nil"
        /\ chain[j].t.currentStep >= 1 /\ chain[j].t.timer # "nil"
        /\ tutorials[k].currentStep = -1 /\ tutorials[k].timer = "nil"

\* ------------------------------------------------------------------ C14
\* C14: no chain stays blocked on a timer that was stopped: a chain that
\* waits, waits on a pending timer; and with timers that fire and
\* goroutines that are scheduled, every started run, initial or restarted,
\* eventually reaches the end of the tutorial.
C14_EveryRunCompletes ==
    /\ [](\A i \in Calls : chain[i].pc = "wait" => chain[i].t.timer = "pending")
    /\ \A i \in Calls : Started(i) ~> (chain[i].pc = "done")

====
